---- MODULE Spec2Model ----
(***************************************************************************)
(* Pooled diagnostic-accuracy estimators of the mitochondrial biomarker   *)
(* review: RealDataMetaAnalysis (2x2 counts, proportion scale),            *)
(* AutomatedMetaAnalysis (CSV table, percentage scale) and                 *)
(* SystematicReviewAutomation (reusable framework, percentage scale).      *)
(* Floating-point values are modelled as exact rationals <<num, den>>;     *)
(* a value that involves one square root is kept as  b + s*sqrt(r).        *)
(***************************************************************************)
EXTENDS Integers, Sequences, FiniteSets, TLC

VARIABLES
    script,            \* which program is running: "real", "auto", "framework" or
                       \* "pipeline" (run_complete_analysis.py); "pool" applies the
                       \* pooling step alone to a list of measurements
    pc,                \* position of that program
    studies_data,      \* RealDataMetaAnalysis.studies_data
    meta_results,      \* RealDataMetaAnalysis.meta_results, SystematicReviewAutomation.meta_results
    todo,              \* biomarkers the loop of perform_comprehensive_meta_analysis has not visited
    ret,               \* per biomarker, what its last call of perform_meta_analysis_biomarker returned
    data,              \* AutomatedMetaAnalysis.data
    results,           \* AutomatedMetaAnalysis.results
    performance_data,  \* SystematicReviewAutomation.performance_data
    locals,            \* per biomarker, the local variables of its last pooling call
    calls,             \* the biomarkers pooled again by direct calls after the run
    summary_data,      \* the rows of the summary table written from the results
    pipeline           \* AnalysisPipeline: its environment and what it has done so far

vars == <<script, pc, studies_data, meta_results, todo, ret, data, results,
          performance_data, locals, calls, summary_data, pipeline>>

-----------------------------------------------------------------------------
(* Bounds of the explored inputs *)

MaxStudies == 2
MaxRows == 2
MaxEntries == 2
MaxIncrease == 2
MaxMeasurements == 3
MaxCalls == 1

\* outcomes of a call: Python None, a raised exception, or a value
None == [kind |-> "None"]
ZeroDivisionError == [kind |-> "ZeroDivisionError"]
EmptyDict == [b \in {} |-> None]

\* a numeric table cell: NaN or a number
NaN == [nan |-> TRUE, v |-> 0]
Num(v) == [nan |-> FALSE, v |-> v]

-----------------------------------------------------------------------------
(* Exact rational arithmetic *)

Abs(x) == IF x < 0 THEN -x ELSE x

RECURSIVE GCD(_, _)
GCD(a, b) == IF b = 0 THEN a ELSE GCD(b, a % b)

\* the rational n/d in lowest terms with a positive denominator (d # 0)
Rat(n, d) ==
    LET g == GCD(Abs(n), Abs(d))
        sg == IF d < 0 THEN -1 ELSE 1
    IN  <<sg * (n \div g), sg * (d \div g)>>

Int2Rat(n) == <<n, 1>>
Zero == <<0, 1>>
One == <<1, 1>>

RMul(x, y) ==
    LET g1 == GCD(Abs(x[1]), y[2])
        g2 == GCD(Abs(y[1]), x[2])
        a == IF g1 = 0 THEN 0 ELSE x[1] \div g1
        d == IF g1 = 0 THEN 1 ELSE y[2] \div g1
        c == IF g2 = 0 THEN 0 ELSE y[1] \div g2
        b == IF g2 = 0 THEN 1 ELSE x[2] \div g2
    IN  Rat(a * c, b * d)

RAdd(x, y) ==
    LET g == GCD(x[2], y[2])
    IN  Rat(x[1] * (y[2] \div g) + y[1] * (x[2] \div g), (x[2] \div g) * y[2])

RNeg(x) == <<-x[1], x[2]>>
RSub(x, y) == RAdd(x, RNeg(y))
RInv(x) == Rat(x[2], x[1])
RDiv(x, y) == RMul(x, RInv(y))
RSq(x) == <<x[1] * x[1], x[2] * x[2]>>

\* a/b < c/d for b, d > 0, by comparing integer parts and then the
\* reciprocals of the fractional parts, so that no product is formed
RECURSIVE FracLt(_, _, _, _)
FracLt(a, b, c, d) ==
    LET q1 == a \div b
        q2 == c \div d
        r1 == a % b
        r2 == c % d
    IN  IF q1 # q2 THEN q1 < q2
        ELSE IF r2 = 0 THEN FALSE
        ELSE IF r1 = 0 THEN TRUE
        ELSE FracLt(d, r2, b, r1)

RLt(x, y) == FracLt(x[1], x[2], y[1], y[2])
RLe(x, y) == ~RLt(y, x)
RIsZero(x) == x[1] = 0

RECURSIVE RSum(_)
RSum(s) == IF s = <<>> THEN Zero ELSE RAdd(Head(s), RSum(Tail(s)))

-----------------------------------------------------------------------------
(* Values  b + s*sqrt(r)  with rational b, r >= 0 and s in {1, -1} *)

Surd(b, s, r) == [b |-> b, s |-> IF RIsZero(r) THEN 1 ELSE s, r |-> r]
RatSurd(b) == Surd(b, 1, Zero)

\* b + s*sqrt(r) < c
SurdLtRat(x, c) ==
    LET dd == RSub(c, x.b)
    IN  IF x.s = 1
        THEN RLt(Zero, dd) /\ RLt(x.r, RSq(dd))
        ELSE RLt(Zero, dd) \/ RLt(RSq(dd), x.r)

\* b + s*sqrt(r) > c
SurdGtRat(x, c) ==
    LET dd == RSub(c, x.b)
    IN  IF x.s = 1
        THEN RLt(dd, Zero) \/ RLt(RSq(dd), x.r)
        ELSE RLt(dd, Zero) /\ RLt(x.r, RSq(dd))

SurdEqRat(x, c) == ~SurdLtRat(x, c) /\ ~SurdGtRat(x, c)

\* Python max(lo, x) and min(hi, x) for a rational limit
MaxRat(lo, x) == IF SurdGtRat(x, lo) THEN x ELSE RatSurd(lo)
MinRat(hi, x) == IF SurdLtRat(x, hi) THEN x ELSE RatSurd(hi)

-----------------------------------------------------------------------------
(* numpy helpers *)

RECURSIVE SumInt(_)
SumInt(s) == IF s = <<>> THEN 0 ELSE Head(s) + SumInt(Tail(s))

\* np.sum(weights * x) for integer weights and rational x
WeightedSum(x, weights) ==
    RSum([i \in DOMAIN x |-> RMul(x[i], Int2Rat(weights[i]))])

\* the weighted sum divided by the number of values
NpAverage_OverCount(x, weights) == RDiv(WeightedSum(x, weights), Int2Rat(Len(x)))

\* the plain mean, the weights ignored
NpAverage_Unweighted(x, weights) == RDiv(RSum(x), Int2Rat(Len(x)))

\* np.average(x, weights=weights); the caller has checked SumInt(weights) # 0,
\* for which numpy raises ZeroDivisionError
NpAverage(x, weights) == RDiv(WeightedSum(x, weights), Int2Rat(SumInt(weights)))

\* (x - mean)**2, elementwise
SqDev(x, mean) == [i \in DOMAIN x |-> RSq(RSub(x[i], mean))]

-----------------------------------------------------------------------------
(* RealDataMetaAnalysis *)

Biomarkers == {"GDF-15", "FGF-21"}

\* 2x2 tables (tp, fp, fn, tn) of the loaded studies
Counts == {0, 1}
Studies ==
    [biomarker : {"GDF-15"}, tp : Counts, fp : Counts, fn : Counts, tn : {1}]
    \cup [biomarker : {"GDF-15"}, tp : {0}, fp : {0}, fn : {0}, tn : {0}]
    \cup [biomarker : {"GDF-15"}, tp : {3}, fp : {1}, fn : {0}, tn : {1}]
    \cup [biomarker : {"GDF-15"}, tp : {0}, fp : {1}, fn : {3}, tn : {1}]
    \cup [biomarker : {"GDF-15"}, tp : {56}, fp : {10}, fn : {14}, tn : {60}]

\* loads with two studies of each of the two biomarkers, as the hardcoded
\* lists have several studies of every biomarker
TwoBiomarkerLoads ==
    LET gdf == [biomarker : {"GDF-15"}, tp : {1, 3}, fp : {1}, fn : {1}, tn : {1}]
               \cup [biomarker : {"GDF-15"}, tp : {0}, fp : {0}, fn : {0}, tn : {0}]
        fgf == [biomarker : {"FGF-21"}, tp : Counts, fp : {0}, fn : {1}, tn : {1}]
    IN  {<<g1, f1, g2, f2>> : g1 \in gdf, g2 \in gdf, f1 \in fgf, f2 \in fgf}

StudyLists == UNION {[1..n -> Studies] : n \in 0..MaxStudies} \cup TwoBiomarkerLoads

\* 1.96 ** 2
Z196Sq == Rat(2401, 625)

\* the false counts added instead of multiplied
StudyDor_SumOfFalse(tp, fp, fn, tn) ==
    IF fp > 0 /\ fn > 0
    THEN [inf |-> FALSE, v |-> Rat(tp * tn, fp + fn)]
    ELSE [inf |-> TRUE, v |-> Zero]

\* dor = (tp * tn) / (fp * fn) if fp > 0 and fn > 0 else float('inf')
StudyDor(tp, fp, fn, tn) ==
    IF fp > 0 /\ fn > 0
    THEN [inf |-> FALSE, v |-> Rat(tp * tn, fp * fn)]
    ELSE [inf |-> TRUE, v |-> Zero]

\* the bounds of a study left unclipped
StudyCI_Unclipped(p, n) ==
    LET se2 == IF n > 0 THEN RDiv(RMul(p, RSub(One, p)), Int2Rat(n)) ELSE Zero
        m2 == RMul(Z196Sq, se2)
    IN  [ lower |-> Surd(p, -1, m2), upper |-> Surd(p, 1, m2) ]

\* se = np.sqrt(p * (1 - p) / n) if n > 0 else 0
\* ci = [max(0, p - 1.96 * se), min(1, p + 1.96 * se)]
StudyCI(p, n) ==
    LET se2 == IF n > 0 THEN RDiv(RMul(p, RSub(One, p)), Int2Rat(n)) ELSE Zero
        m2 == RMul(Z196Sq, se2)
    IN  [ lower |-> MaxRat(Zero, Surd(p, -1, m2)),
          upper |-> MinRat(One, Surd(p, 1, m2)) ]

\* sensitivity = tp / (tp + fn) if (tp + fn) > 0 else 0
StudySensitivity(study) ==
    IF study.tp + study.fn > 0 THEN Rat(study.tp, study.tp + study.fn) ELSE Zero

\* 'n_total': tp + fp + fn + tn
StudyTotal(study) == study.tp + study.fp + study.fn + study.tn

calculate_study_metrics(study) ==
    LET tp == study.tp
        fp == study.fp
        fn == study.fn
        tn == study.tn
        sensitivity == StudySensitivity(study)
        specificity == IF tn + fp > 0 THEN Rat(tn, tn + fp) ELSE Zero
        sens_ci == StudyCI(sensitivity, tp + fn)
        spec_ci == StudyCI(specificity, tn + fp)
    IN  [ biomarker |-> study.biomarker,
          n_total |-> StudyTotal(study),
          sensitivity |-> sensitivity,
          specificity |-> specificity,
          sens_ci_lower |-> sens_ci.lower,
          sens_ci_upper |-> sens_ci.upper,
          spec_ci_lower |-> spec_ci.lower,
          spec_ci_upper |-> spec_ci.upper,
          dor |-> StudyDor(tp, fp, fn, tn),
          tp |-> tp, fp |-> fp, fn |-> fn, tn |-> tn ]

\* the excess of Q divided by df instead of Q
InlineI2_OverDf(q, df) ==
    IF RLt(Int2Rat(df), q)
    THEN LET v == RMul(RDiv(RSub(q, Int2Rat(df)), Int2Rat(df)), Int2Rat(100))
         IN  IF RLt(Zero, v) THEN v ELSE Zero
    ELSE Zero

\* sens_i2 = max(0, (sens_q - df) / sens_q * 100) if sens_q > df else 0
InlineI2(q, df) ==
    IF RLt(Int2Rat(df), q)
    THEN LET v == RMul(RDiv(RSub(q, Int2Rat(df)), q), Int2Rat(100))
         IN  IF RLt(Zero, v) THEN v ELSE Zero
    ELSE Zero

\* the lower bound left unclipped
InlineCI_NoFloor(pooled, se) ==
    LET m2 == RMul(Z196Sq, se.r)
    IN  [ lower |-> Surd(pooled, -1, m2),
          upper |-> MinRat(One, Surd(pooled, 1, m2)) ]

\* [max(0, pooled - 1.96 * se), min(1, pooled + 1.96 * se)]
InlineCI(pooled, se) ==
    LET m2 == RMul(Z196Sq, se.r)
    IN  [ lower |-> MaxRat(Zero, Surd(pooled, -1, m2)),
          upper |-> MinRat(One, Surd(pooled, 1, m2)) ]

\* the position in the list taken as the weight
StudyWeights_ByPosition(study_metrics) == [i \in DOMAIN study_metrics |-> i]

\* weights = [m['n_total'] for m in study_metrics]
StudyWeights(study_metrics) == [i \in DOMAIN study_metrics |-> study_metrics[i].n_total]

\* np.sqrt(var / n)
SqrtOver(var, n) == Surd(Zero, 1, RDiv(var, Int2Rat(n)))

\* a threshold of one study
InsufficientStudies_One(n) == n < 1

\* if len(biomarker_studies) < 2: return None
InsufficientStudies(n) == n < 2

\* the studies pooled twice once the biomarker has a stored result, as if the
\* list were an attribute that every call extends
BiomarkerStudies_Accumulated(sd, biomarker_name) ==
    LET IsOf(s) == s.biomarker = biomarker_name
    IN  IF biomarker_name \in DOMAIN meta_results
        THEN SelectSeq(sd, IsOf) \o SelectSeq(sd, IsOf)
        ELSE SelectSeq(sd, IsOf)

\* [s for s in self.studies_data if s['biomarker'] == biomarker_name]
BiomarkerStudies(sd, biomarker_name) ==
    LET IsOf(s) == s.biomarker = biomarker_name
    IN  SelectSeq(sd, IsOf)

RECURSIVE RProd(_)
RProd(s) == IF s = <<>> THEN One ELSE RMul(Head(s), RProd(Tail(s)))

\* the odds ratios equal to zero kept among those whose logarithm is taken
PooledDor_KeepsZero(study_metrics) ==
    LET Usable(m) == ~m.dor.inf
        used == SelectSeq(study_metrics, Usable)
    IN  IF used = <<>> THEN None
        ELSE [ kind |-> "number",
               product |-> RProd([i \in DOMAIN used |-> used[i].dor.v]),
               count |-> Len(used) ]

\* np.exp(np.mean(log_dors)) over the finite, positive odds ratios of the
\* studies: their geometric mean, kept as their product and their number;
\* None when there is none
PooledDor(study_metrics) ==
    LET Usable(m) == ~m.dor.inf /\ RLt(Zero, m.dor.v)
        used == SelectSeq(study_metrics, Usable)
    IN  IF used = <<>> THEN None
        ELSE [ kind |-> "number",
               product |-> RProd([i \in DOMAIN used |-> used[i].dor.v]),
               count |-> Len(used) ]

\* the local variables of perform_meta_analysis_biomarker from the metrics of
\* its studies on, up to the point where it returns or raises
PoolStudyMetrics(biomarker_studies, study_metrics) ==
    LET n == Len(biomarker_studies)
        sensitivities == [i \in 1..n |-> study_metrics[i].sensitivity]
        specificities == [i \in 1..n |-> study_metrics[i].specificity]
        weights == StudyWeights(study_metrics)
        pooled_sensitivity == NpAverage(sensitivities, weights)
        pooled_specificity == NpAverage(specificities, weights)
        sens_var == NpAverage(SqDev(sensitivities, pooled_sensitivity), weights)
        spec_var == NpAverage(SqDev(specificities, pooled_specificity), weights)
        sens_se == SqrtOver(sens_var, n)
        spec_se == SqrtOver(spec_var, n)
        sens_q == WeightedSum(SqDev(sensitivities, pooled_sensitivity), weights)
        spec_q == WeightedSum(SqDev(specificities, pooled_specificity), weights)
    IN  IF InsufficientStudies(n)
        THEN [ outcome |-> "None", biomarker_studies |-> biomarker_studies ]
        ELSE IF SumInt(weights) = 0
        THEN [ outcome |-> "ZeroDivisionError", biomarker_studies |-> biomarker_studies,
               study_metrics |-> study_metrics, weights |-> weights ]
        ELSE [ outcome |-> "result", biomarker_studies |-> biomarker_studies,
               study_metrics |-> study_metrics,
               sensitivities |-> sensitivities, specificities |-> specificities,
               weights |-> weights,
               pooled_sensitivity |-> pooled_sensitivity,
               pooled_specificity |-> pooled_specificity,
               sens_se |-> sens_se, spec_se |-> spec_se,
               sens_ci |-> InlineCI(pooled_sensitivity, sens_se),
               spec_ci |-> InlineCI(pooled_specificity, spec_se),
               sens_q |-> sens_q, spec_q |-> spec_q, df |-> n - 1,
               sens_i2 |-> InlineI2(sens_q, n - 1),
               spec_i2 |-> InlineI2(spec_q, n - 1) ]

\* the local variables of perform_meta_analysis_biomarker, up to the point
\* where it returns or raises:
\*   biomarker_studies = [s for s in self.studies_data if ...]
\*   study_metrics = [self.calculate_study_metrics(s) for s in biomarker_studies]
BiomarkerLocals(sd, biomarker_name) ==
    LET biomarker_studies == BiomarkerStudies(sd, biomarker_name)
    IN  PoolStudyMetrics(biomarker_studies,
            [i \in DOMAIN biomarker_studies |->
                calculate_study_metrics(biomarker_studies[i])])

\* what perform_meta_analysis_biomarker returns, from its local variables
BiomarkerResult(biomarker_name, l) ==
    IF l.outcome = "None" THEN None
    ELSE IF l.outcome = "ZeroDivisionError" THEN ZeroDivisionError
    ELSE [ kind |-> "result",
           biomarker |-> biomarker_name,
           n_studies |-> Len(l.study_metrics),
           pooled_sensitivity |-> l.pooled_sensitivity,
           sensitivity_ci_lower |-> l.sens_ci.lower,
           sensitivity_ci_upper |-> l.sens_ci.upper,
           sensitivity_i2 |-> l.sens_i2,
           pooled_specificity |-> l.pooled_specificity,
           specificity_ci_lower |-> l.spec_ci.lower,
           specificity_ci_upper |-> l.spec_ci.upper,
           specificity_i2 |-> l.spec_i2,
           pooled_dor |-> PooledDor(l.study_metrics),
           summary_auc |-> RDiv(RAdd(l.pooled_sensitivity, l.pooled_specificity), Int2Rat(2)),
           individual_studies |-> l.study_metrics ]

perform_meta_analysis_biomarker(sd, biomarker_name) ==
    BiomarkerResult(biomarker_name, BiomarkerLocals(sd, biomarker_name))

\* set(study['biomarker'] for study in self.studies_data)
BiomarkerSet(sd) == {sd[i].biomarker : i \in DOMAIN sd}

\* perform_comprehensive_meta_analysis, up to the loop: load the studies and
\* collect the biomarker names
ComprehensiveBegin ==
    /\ script = "real" /\ pc = "start"
    /\ \E sd \in StudyLists :
          /\ studies_data' = sd
          /\ todo' = BiomarkerSet(sd)
    /\ pc' = "loop"
    /\ UNCHANGED <<pipeline, summary_data, calls, script, meta_results, ret, data, results, performance_data, locals>>

\* one iteration of the loop, in the arbitrary order of a Python set
ComprehensiveIterate ==
    /\ script = "real" /\ pc = "loop"
    /\ \E biomarker \in todo :
          LET l == BiomarkerLocals(studies_data, biomarker)
              result == BiomarkerResult(biomarker, l)
          IN  /\ ret' = (biomarker :> result) @@ ret
              /\ locals' = (biomarker :> l) @@ locals
              /\ IF result.kind = "ZeroDivisionError"
                 THEN /\ pc' = "raised"
                      /\ UNCHANGED <<todo, meta_results>>
                 ELSE /\ pc' = "loop"
                      /\ todo' = todo \ {biomarker}
                      /\ meta_results' =
                            IF result.kind = "result"
                            THEN (biomarker :> result) @@ meta_results
                            ELSE meta_results
    /\ UNCHANGED <<pipeline, summary_data, calls, script, studies_data, data, results, performance_data>>

\* return self.meta_results
ComprehensiveReturn ==
    /\ script = "real" /\ pc = "loop" /\ todo = {}
    /\ pc' = "done"
    /\ UNCHANGED <<pipeline, summary_data, calls, script, studies_data, meta_results, todo, ret, data, results,
                   performance_data, locals>>

\* the direct call stores what it returns, None included
CallPerformMetaAnalysisBiomarker_Stores ==
    /\ script = "real" /\ pc = "done" /\ Len(calls) < MaxCalls
    /\ \E biomarker \in Biomarkers :
          LET l == BiomarkerLocals(studies_data, biomarker)
          IN  /\ ret' = (biomarker :> BiomarkerResult(biomarker, l)) @@ ret
              /\ locals' = (biomarker :> l) @@ locals
              /\ calls' = Append(calls, biomarker)
              /\ meta_results' = (biomarker :> BiomarkerResult(biomarker, l)) @@ meta_results
    /\ UNCHANGED <<pipeline, summary_data, script, pc, studies_data, todo, data, results, performance_data>>

\* a later, direct call of perform_meta_analysis_biomarker
CallPerformMetaAnalysisBiomarker ==
    /\ script = "real" /\ pc = "done" /\ Len(calls) < MaxCalls
    /\ \E biomarker \in Biomarkers :
          LET l == BiomarkerLocals(studies_data, biomarker)
          IN  /\ ret' = (biomarker :> BiomarkerResult(biomarker, l)) @@ ret
              /\ locals' = (biomarker :> l) @@ locals
              /\ calls' = Append(calls, biomarker)
    /\ UNCHANGED <<pipeline, summary_data, script, pc, studies_data, meta_results, todo, data, results,
                   performance_data>>

-----------------------------------------------------------------------------
(* The pooling step of perform_meta_analysis_biomarker on its own *)

\* sensitivities and sample sizes of the GDF-15 studies Koene2014,
\* Yatsuga2015 and Montero2016, the sensitivities to two decimals
Measurements ==
    [est : {Rat(80, 100), Rat(74, 100), Rat(71, 100)}, w : {140, 196, 102}]

MeasurementLists == UNION {[1..n -> Measurements] : n \in 2..MaxMeasurements}

\* the mean of the estimates, their weights ignored
PooledEstimate_Plain(measurements) ==
    NpAverage_Unweighted([i \in DOMAIN measurements |-> measurements[i].est],
                         [i \in DOMAIN measurements |-> measurements[i].w])

\* np.average(sensitivities, weights=weights)
PooledEstimate(measurements) ==
    NpAverage([i \in DOMAIN measurements |-> measurements[i].est],
              [i \in DOMAIN measurements |-> measurements[i].w])

\* the estimates and weights of 2 or more studies are pooled
PoolMeasurements ==
    /\ script = "pool" /\ pc = "start"
    /\ \E measurements \in MeasurementLists :
          locals' = ("GDF-15" :>
                        [ measurements |-> measurements,
                          pooled_sensitivity |-> PooledEstimate(measurements) ])
    /\ pc' = "done"
    /\ UNCHANGED <<pipeline, summary_data, calls, script, studies_data, meta_results, todo, ret, data, results,
                   performance_data>>

-----------------------------------------------------------------------------
(* AutomatedMetaAnalysis: rows of meta_analysis_ready_table.csv, percentages *)

\* a biomarker_name cell that is empty (read as NaN)
NoName == ""

Rows ==
    [biomarker_name : {"GDF-15"}, sensitivity_mean : {NaN, Num(0), Num(100)},
     specificity_mean : {NaN, Num(100)},
     n_patients : {Num(2)}, n_controls : {Num(1)}]
    \cup [biomarker_name : {"GDF-15"}, sensitivity_mean : {Num(0), Num(100)},
          specificity_mean : {Num(50)},
          n_patients : {NaN, Num(0)}, n_controls : {Num(-1), Num(0)}]
    \cup [biomarker_name : {"FGF-21"}, sensitivity_mean : {Num(100)},
          specificity_mean : {NaN, Num(100)},
          n_patients : {NaN}, n_controls : {NaN}]
    \cup [biomarker_name : {NoName}, sensitivity_mean : {Num(100)},
          specificity_mean : {Num(100)},
          n_patients : {Num(2)}, n_controls : {Num(1)}]

Tables == UNION {[1..n -> Rows] : n \in 0..MaxRows}

\* stats.norm.ppf((1 + 0.95) / 2) ** 2, with the quantile 1.959964 taken as 1.96
ZScoreSq == Rat(2401, 625)

\* Python  x or 0  on a float cell: a falsy x (zero) gives 0, NaN is truthy
\* and stays NaN, any other number stays
OrZero(c) == IF ~c.nan /\ c.v = 0 THEN Num(0) ELSE c

\* float addition of two cells: NaN propagates
CellAdd(x, y) == IF x.nan \/ y.nan THEN NaN ELSE Num(x.v + y.v)

\* the column of a table as rationals (rows where it is NaN removed before)
Column(rows, name) == [i \in DOMAIN rows |-> Int2Rat(rows[i][name].v)]

\* the controls left out of the sample size
calculate_weights_PatientsOnly(rows) ==
    [i \in DOMAIN rows |->
        LET n_total == OrZero(rows[i].n_patients)
        IN  IF ~n_total.nan /\ n_total.v > 0 THEN n_total.v ELSE 1]

\* every row given the default weight
calculate_weights_AllDefault(rows) == [i \in DOMAIN rows |-> 1]

calculate_weights(rows) ==
    [i \in DOMAIN rows |->
        LET n_total == CellAdd(OrZero(rows[i].n_patients), OrZero(rows[i].n_controls))
        IN  IF ~n_total.nan /\ n_total.v > 0 THEN n_total.v ELSE 1]

calculate_standard_error(values, weights) ==
    IF Len(values) < 2 THEN RatSurd(Zero)
    ELSE SqrtOver(NpAverage(SqDev(values, NpAverage(values, weights)), weights), Len(values))

\* (max(0, estimate - margin), min(100, estimate + margin)), margin = z_score * se
calculate_confidence_interval(estimate, se) ==
    LET m2 == RMul(ZScoreSq, se.r)
    IN  [ lower |-> MaxRat(Zero, Surd(estimate, -1, m2)),
          upper |-> MinRat(Int2Rat(100), Surd(estimate, 1, m2)) ]

RMax(x, y) == IF RLt(x, y) THEN y ELSE x
RMin(x, y) == IF RLt(y, x) THEN y ELSE x

\* the number of values taken as the degrees of freedom
calculate_heterogeneity_DfIsN(values, weights) ==
    IF Len(values) < 2 THEN Zero
    ELSE LET weighted_mean == NpAverage(values, weights)
             q_stat == WeightedSum(SqDev(values, weighted_mean), weights)
             df == Int2Rat(Len(values))
             i_squared == IF RLe(q_stat, df) THEN Zero
                          ELSE RMul(RDiv(RSub(q_stat, df), q_stat), Int2Rat(100))
         IN  RMin(Int2Rat(100), RMax(Zero, i_squared))

calculate_heterogeneity(values, weights) ==
    IF Len(values) < 2 THEN Zero
    ELSE LET weighted_mean == NpAverage(values, weights)
             q_stat == WeightedSum(SqDev(values, weighted_mean), weights)
             df == Int2Rat(Len(values) - 1)
             i_squared == IF RLe(q_stat, df) THEN Zero
                          ELSE RMul(RDiv(RSub(q_stat, df), q_stat), Int2Rat(100))
         IN  RMin(Int2Rat(100), RMax(Zero, i_squared))

\* the specificity left unchecked
DorNotComputable_SensOnly(sensitivity, specificity) ==
    sensitivity = Zero \/ sensitivity = Int2Rat(100)

\* the early return of calculate_diagnostic_odds_ratio
DorNotComputable(sensitivity, specificity) ==
    \/ sensitivity = Zero \/ sensitivity = Int2Rat(100)
    \/ specificity = Zero \/ specificity = Int2Rat(100)

\* a float division by zero of numpy scalars: inf or nan, no exception
NotFinite == [kind |-> "not finite"]

\* the percentages used as if they were proportions
calculate_diagnostic_odds_ratio_NoScale(sensitivity, specificity) ==
    IF DorNotComputable(sensitivity, specificity) THEN None
    ELSE LET sens == sensitivity
             spec == specificity
         IN  IF RIsZero(RSub(One, sens)) \/ RIsZero(spec) \/ RIsZero(RSub(One, spec))
             THEN NotFinite
             ELSE [ kind |-> "number",
                    v |-> RDiv(RDiv(sens, RSub(One, sens)), RDiv(RSub(One, spec), spec)) ]

calculate_diagnostic_odds_ratio(sensitivity, specificity) ==
    IF DorNotComputable(sensitivity, specificity) THEN None
    ELSE LET sens == RDiv(sensitivity, Int2Rat(100))
             spec == RDiv(specificity, Int2Rat(100))
         IN  IF RIsZero(RSub(One, sens)) \/ RIsZero(spec) \/ RIsZero(RSub(One, spec))
             THEN NotFinite
             ELSE [ kind |-> "number",
                    v |-> RDiv(RDiv(sens, RSub(One, sens)), RDiv(RSub(One, spec), spec)) ]

HasSens(row) == ~row.sensitivity_mean.nan
HasSpec(row) == ~row.specificity_mean.nan

\* result.update({...}) for one metric with at least 2 rows
PooledFields(prefix, rows, name) ==
    LET values == Column(rows, name)
        weights == calculate_weights(rows)
        pooled == NpAverage(values, weights)
        se == calculate_standard_error(values, weights)
        ci == calculate_confidence_interval(pooled, se)
    IN  IF prefix = "sensitivity"
        THEN [ pooled_sensitivity |-> pooled,
               sensitivity_se |-> se,
               sensitivity_ci_lower |-> ci.lower,
               sensitivity_ci_upper |-> ci.upper,
               sensitivity_heterogeneity |-> calculate_heterogeneity(values, weights) ]
        ELSE [ pooled_specificity |-> pooled,
               specificity_se |-> se,
               specificity_ci_lower |-> ci.lower,
               specificity_ci_upper |-> ci.upper,
               specificity_heterogeneity |-> calculate_heterogeneity(values, weights) ]

\* the key stored in every result, None when a pooled metric is missing
AddDiagnosticOddsRatio_Always(result) ==
    IF "pooled_sensitivity" \in DOMAIN result /\ "pooled_specificity" \in DOMAIN result
    THEN ("diagnostic_odds_ratio" :>
             calculate_diagnostic_odds_ratio(result.pooled_sensitivity,
                                             result.pooled_specificity)) @@ result
    ELSE ("diagnostic_odds_ratio" :> None) @@ result

\* if 'pooled_sensitivity' in result and 'pooled_specificity' in result:
\*     result['diagnostic_odds_ratio'] = self.calculate_diagnostic_odds_ratio(...)
AddDiagnosticOddsRatio(result) ==
    IF "pooled_sensitivity" \in DOMAIN result /\ "pooled_specificity" \in DOMAIN result
    THEN ("diagnostic_odds_ratio" :>
             calculate_diagnostic_odds_ratio(result.pooled_sensitivity,
                                             result.pooled_specificity)) @@ result
    ELSE result

\* the dictionary returned by calculate_pooled_estimates; a key that was
\* never set is outside its DOMAIN
calculate_pooled_estimates(rows, biomarker_name) ==
    LET sens_data == SelectSeq(rows, HasSens)
        spec_data == SelectSeq(rows, HasSpec)
        result0 == [ biomarker |-> biomarker_name,
                     n_studies |-> Len(rows),
                     n_studies_sens |-> Len(sens_data),
                     n_studies_spec |-> Len(spec_data) ]
        result1 == IF Len(sens_data) >= 2
                   THEN PooledFields("sensitivity", sens_data, "sensitivity_mean") @@ result0
                   ELSE result0
        result2 == IF Len(spec_data) >= 2
                   THEN PooledFields("specificity", spec_data, "specificity_mean") @@ result1
                   ELSE result1
    IN  AddDiagnosticOddsRatio(result2)

\* rows without a sample size rejected
ValidData_SizedOnly(rows, biomarker) ==
    LET Valid(row) == /\ row.biomarker_name = biomarker
                      /\ HasSens(row) \/ HasSpec(row)
                      /\ ~row.n_patients.nan /\ ~row.n_controls.nan
    IN  SelectSeq(rows, Valid)

\* valid_data of one biomarker: its rows with a sensitivity or a specificity
ValidData(rows, biomarker) ==
    LET Valid(row) == row.biomarker_name = biomarker /\ (HasSens(row) \/ HasSpec(row))
    IN  SelectSeq(rows, Valid)

\* self.data['biomarker_name'].dropna().unique(), without the empty name
UniqueNames(rows) == {rows[i].biomarker_name : i \in DOMAIN rows} \ {NoName}

\* the biomarkers the loop of perform_meta_analysis_by_biomarker pools
Pooled(rows) == {b \in UniqueNames(rows) : Len(ValidData(rows, b)) >= 2}

\* the weights calculate_weights returned for each metric of one biomarker
PoolingLocals(valid_data) ==
    LET sens_data == SelectSeq(valid_data, HasSens)
        spec_data == SelectSeq(valid_data, HasSpec)
    IN  [ valid_data |-> valid_data,
          sens_data |-> sens_data,
          spec_data |-> spec_data,
          sens_weights |-> calculate_weights(sens_data),
          spec_weights |-> calculate_weights(spec_data) ]

\* load_data succeeds: the table is read
LoadData ==
    /\ script = "auto" /\ pc = "start"
    /\ data' \in Tables
    /\ pc' = "loaded"
    /\ UNCHANGED <<pipeline, summary_data, calls, script, studies_data, meta_results, todo, ret, results,
                   performance_data, locals>>

\* load_data fails: main prints the failure and returns
LoadDataFails ==
    /\ script = "auto" /\ pc = "start"
    /\ pc' = "failed"
    /\ UNCHANGED <<pipeline, summary_data, calls, script, studies_data, meta_results, todo, ret, data, results,
                   performance_data, locals>>

\* perform_meta_analysis_by_biomarker: the loop over the unique names; each
\* iteration writes only its own key, so the dictionary is built key by key
PerformMetaAnalysisByBiomarker ==
    /\ script = "auto" /\ pc = "loaded"
    /\ results' = [b \in Pooled(data) |->
                      calculate_pooled_estimates(ValidData(data, b), b)] @@ results
    /\ locals' = [b \in Pooled(data) |-> PoolingLocals(ValidData(data, b))] @@ locals
    /\ pc' = "analysed"
    /\ UNCHANGED <<pipeline, summary_data, calls, script, studies_data, meta_results, todo, ret, data, performance_data>>

\* a later, direct call of calculate_pooled_estimates on the valid rows of a
\* biomarker
CallCalculatePooledEstimates ==
    /\ script = "auto" /\ pc = "analysed" /\ Len(calls) < MaxCalls
    /\ \E biomarker \in UniqueNames(data) :
          /\ ret' = (biomarker :>
                        calculate_pooled_estimates(ValidData(data, biomarker), biomarker)) @@ ret
          /\ calls' = Append(calls, biomarker)
    /\ UNCHANGED <<pipeline, summary_data, script, pc, studies_data, meta_results, todo, data, results,
                   performance_data, locals>>

-----------------------------------------------------------------------------
(* SystematicReviewAutomation: entries of performance_data, percentages *)

Entries ==
    [biomarker_name : {"GDF-15"}, sensitivity : {NaN, Num(0), Num(100)},
     specificity : {Num(100)},
     n_patients : {NaN, Num(0)}, n_controls : {Num(-1), Num(3)}]
    \cup [biomarker_name : {"FGF-21"}, sensitivity : {Num(100)},
          specificity : {NaN},
          n_patients : {Num(2)}, n_controls : {Num(1)}]

EntryLists == UNION {[1..n -> Entries] : n \in 0..MaxEntries}

\* self.config['min_studies_for_meta']
min_studies_for_meta == 2

\* weights.append(max(1, n_total)): max keeps 1 when n_total is NaN
fw_calculate_weights(rows) ==
    [i \in DOMAIN rows |->
        LET n_total == CellAdd(OrZero(rows[i].n_patients), OrZero(rows[i].n_controls))
        IN  IF ~n_total.nan /\ n_total.v > 1 THEN n_total.v ELSE 1]

fw_calculate_standard_error(values, weights) ==
    IF Len(values) < 2 THEN RatSurd(Zero)
    ELSE SqrtOver(NpAverage(SqDev(values, NpAverage(values, weights)), weights), Len(values))

\* z_score from self.config['confidence_level'] = 0.95
fw_calculate_confidence_interval(estimate, se) ==
    LET m2 == RMul(ZScoreSq, se.r)
    IN  [ lower |-> MaxRat(Zero, Surd(estimate, -1, m2)),
          upper |-> MinRat(Int2Rat(100), Surd(estimate, 1, m2)) ]

\* the excess of Q left as a fraction, not multiplied by 100
fw_calculate_heterogeneity_Fraction(values, weights) ==
    IF Len(values) < 2 THEN Zero
    ELSE LET weighted_mean == NpAverage(values, weights)
             q_stat == WeightedSum(SqDev(values, weighted_mean), weights)
             df == Int2Rat(Len(values) - 1)
         IN  IF RLe(q_stat, df) THEN Zero
             ELSE RMin(Int2Rat(100), RDiv(RSub(q_stat, df), q_stat))

fw_calculate_heterogeneity(values, weights) ==
    IF Len(values) < 2 THEN Zero
    ELSE LET weighted_mean == NpAverage(values, weights)
             q_stat == WeightedSum(SqDev(values, weighted_mean), weights)
             df == Int2Rat(Len(values) - 1)
         IN  IF RLe(q_stat, df) THEN Zero
             ELSE RMin(Int2Rat(100), RMul(RDiv(RSub(q_stat, df), q_stat), Int2Rat(100)))

FwHasSens(row) == ~row.sensitivity.nan
FwHasSpec(row) == ~row.specificity.nan

FwPooledFields(prefix, rows, name) ==
    LET values == Column(rows, name)
        weights == fw_calculate_weights(rows)
        pooled == NpAverage(values, weights)
        se == fw_calculate_standard_error(values, weights)
        ci == fw_calculate_confidence_interval(pooled, se)
    IN  IF prefix = "sensitivity"
        THEN [ pooled_sensitivity |-> pooled,
               sensitivity_ci_lower |-> ci.lower,
               sensitivity_ci_upper |-> ci.upper,
               sensitivity_heterogeneity |-> fw_calculate_heterogeneity(values, weights) ]
        ELSE [ pooled_specificity |-> pooled,
               specificity_ci_lower |-> ci.lower,
               specificity_ci_upper |-> ci.upper,
               specificity_heterogeneity |-> fw_calculate_heterogeneity(values, weights) ]

\* the dictionary returned by calculate_meta_analysis (its analysis_date,
\* the wall-clock time of the call, is left out)
calculate_meta_analysis(rows, biomarker_name) ==
    LET sens_data == SelectSeq(rows, FwHasSens)
        spec_data == SelectSeq(rows, FwHasSpec)
        result0 == [ biomarker |-> biomarker_name, n_studies |-> Len(rows) ]
        result1 == IF Len(sens_data) >= 2
                   THEN FwPooledFields("sensitivity", sens_data, "sensitivity") @@ result0
                   ELSE result0
    IN  IF Len(spec_data) >= 2
        THEN FwPooledFields("specificity", spec_data, "specificity") @@ result1
        ELSE result1

FwValidData(rows, biomarker) ==
    LET Valid(row) == row.biomarker_name = biomarker /\ (FwHasSens(row) \/ FwHasSpec(row))
    IN  SelectSeq(rows, Valid)

FwPooled(rows) ==
    {b \in {rows[i].biomarker_name : i \in DOMAIN rows} :
        Len(FwValidData(rows, b)) >= min_studies_for_meta}

FwPoolingLocals(valid_data) ==
    LET sens_data == SelectSeq(valid_data, FwHasSens)
        spec_data == SelectSeq(valid_data, FwHasSpec)
    IN  [ valid_data |-> valid_data,
          sens_data |-> sens_data,
          spec_data |-> spec_data,
          sens_weights |-> fw_calculate_weights(sens_data),
          spec_weights |-> fw_calculate_weights(spec_data),
          sens_se |-> fw_calculate_standard_error(Column(sens_data, "sensitivity"),
                                                  fw_calculate_weights(sens_data)),
          spec_se |-> fw_calculate_standard_error(Column(spec_data, "specificity"),
                                                  fw_calculate_weights(spec_data)) ]

\* the caller fills performance_data
FillPerformanceData ==
    /\ script = "framework" /\ pc = "start"
    /\ performance_data' \in EntryLists
    /\ pc' = "loaded"
    /\ UNCHANGED <<pipeline, summary_data, calls, script, studies_data, meta_results, todo, ret, data, results, locals>>

\* perform_automated_meta_analysis; a DataFrame built from an empty list has
\* no biomarker_name column
PerformAutomatedMetaAnalysis ==
    /\ script = "framework" /\ pc = "loaded"
    /\ IF performance_data = <<>>
       THEN /\ pc' = "raised"
            /\ UNCHANGED <<meta_results, locals>>
       ELSE /\ pc' = "analysed"
            /\ meta_results' =
                  [b \in FwPooled(performance_data) |->
                      calculate_meta_analysis(FwValidData(performance_data, b), b)]
                  @@ meta_results
            /\ locals' =
                  [b \in FwPooled(performance_data) |->
                      FwPoolingLocals(FwValidData(performance_data, b))] @@ locals
    /\ UNCHANGED <<pipeline, summary_data, calls, script, studies_data, todo, ret, data, results, performance_data>>

-----------------------------------------------------------------------------

-----------------------------------------------------------------------------
(* The summary tables: cells are the text 'NR' or a number printed with a
   fixed count of decimals, kept as that number times 10 (or 100) *)

NR == [text |-> "NR"]
Printed(n) == [text |-> "number", n |-> n]

\* the largest odds ratio of the explored studies is 24
DorLimit == 25

RECURSIVE RPower(_, _)
RPower(x, n) == IF n = 0 THEN One ELSE RMul(x, RPower(x, n - 1))

\* the nearest integer to the rational x >= 0, a tie going to the even one
RoundHalfEven(x) ==
    LET q == x[1] \div x[2]
        twice == 2 * (x[1] % x[2])
    IN  IF twice < x[2] THEN q
        ELSE IF twice > x[2] THEN q + 1
        ELSE IF q % 2 = 0 THEN q ELSE q + 1

\* f"{x:.1f}" and f"{x:.2f}" of a rational x >= 0
Format1(x) == Printed(RoundHalfEven(RMul(x, Int2Rat(10))))
Format2(x) == Printed(RoundHalfEven(RMul(x, Int2Rat(100))))

RAbs(x) == <<Abs(x[1]), x[2]>>

\* d*d > r and d*d < r for r >= 0, as r/|d| against |d|: the squares of the
\* printed tenths do not fit the integers of the model
SqGt(d, r) == IF RIsZero(d) THEN FALSE ELSE RLt(RDiv(r, RAbs(d)), RAbs(d))
SqLt(d, r) == IF RIsZero(d) THEN RLt(Zero, r) ELSE RLt(RAbs(d), RDiv(r, RAbs(d)))

\* b + s*sqrt(r) < c and b + s*sqrt(r) > c for a printed value c
SurdBelow(x, c) ==
    LET dd == RSub(c, x.b)
    IN  IF x.s = 1
        THEN RLt(Zero, dd) /\ SqGt(dd, x.r)
        ELSE RLt(Zero, dd) \/ SqLt(dd, x.r)
SurdAbove(x, c) ==
    LET dd == RSub(c, x.b)
    IN  IF x.s = 1
        THEN RLt(dd, Zero) \/ SqLt(dd, x.r)
        ELSE RLt(dd, Zero) /\ SqGt(dd, x.r)

\* the largest k in lo..hi-1 with k/10 <= x, for lo/10 <= x < hi/10
RECURSIVE FloorTenths(_, _, _)
FloorTenths(x, lo, hi) ==
    IF hi <= lo + 1 THEN lo
    ELSE LET mid == (lo + hi) \div 2
         IN  IF SurdBelow(x, Rat(mid, 10))
             THEN FloorTenths(x, lo, mid)
             ELSE FloorTenths(x, mid, hi)

\* f"{x:.1f}" of a value b + s*sqrt(r) between 0 and 100
FormatSurd1(x) ==
    LET k == FloorTenths(x, 0, 1001)
        half == Rat(2 * k + 1, 20)
    IN  Printed(IF SurdBelow(x, half) THEN k
                ELSE IF SurdAbove(x, half) THEN k + 1
                ELSE IF k % 2 = 0 THEN k ELSE k + 1)

\* x * 100 for a value b + s*sqrt(r)
SurdTimes100(x) == Surd(RMul(x.b, Int2Rat(100)), x.s, RMul(x.r, Int2Rat(10000)))

\* Python truth of result.get(key): a missing key and None are false, and so
\* is a number equal to 0
Truthy(result, key) == key \in DOMAIN result /\ ~RIsZero(result[key])
TruthySurd(result, key) == key \in DOMAIN result /\ ~SurdEqRat(result[key], Zero)
TruthyDor(result, key) ==
    /\ key \in DOMAIN result
    /\ result[key].kind # "None"
    /\ result[key].kind = "number" => ~RIsZero(result[key].v)

\* f"{x:.2f}" of an odds ratio: 'inf' for float('inf')
FormatDor2(dor) == IF dor.kind = "number" THEN Format2(dor.v) ELSE [text |-> "inf"]

\* one row of the summary table of generate_meta_analysis_report:
\*   f"{result.get('pooled_sensitivity', 'NR'):.1f}" if result.get('pooled_sensitivity') else 'NR'
\* and likewise for the other cells
SummaryRow(biomarker, result) ==
    [ Biomarker |-> biomarker,
      N_Studies |-> result.n_studies,
      Pooled_Sensitivity |->
          IF Truthy(result, "pooled_sensitivity")
          THEN Format1(result.pooled_sensitivity) ELSE NR,
      Sensitivity_95CI |->
          IF TruthySurd(result, "sensitivity_ci_lower")
          THEN <<FormatSurd1(result.sensitivity_ci_lower),
                 FormatSurd1(result.sensitivity_ci_upper)>>
          ELSE NR,
      Pooled_Specificity |->
          IF Truthy(result, "pooled_specificity")
          THEN Format1(result.pooled_specificity) ELSE NR,
      Specificity_95CI |->
          IF TruthySurd(result, "specificity_ci_lower")
          THEN <<FormatSurd1(result.specificity_ci_lower),
                 FormatSurd1(result.specificity_ci_upper)>>
          ELSE NR,
      DOR |->
          IF TruthyDor(result, "diagnostic_odds_ratio")
          THEN FormatDor2(result.diagnostic_odds_ratio) ELSE NR ]

\* generate_meta_analysis_report: nothing is written when there are no
\* results; otherwise one summary row per stored biomarker
GenerateMetaAnalysisReport ==
    /\ script = "auto" /\ pc = "analysed" /\ calls = <<>>
    /\ summary_data' = [b \in DOMAIN results |-> SummaryRow(b, results[b])]
    /\ pc' = "reported"
    /\ UNCHANGED <<pipeline, calls, script, studies_data, meta_results, todo, ret, data,
                   results, performance_data, locals>>

\* the largest k in lo..hi-1 with (k/10)^count <= product, that is with k/10
\* at most the geometric mean, for (lo/10)^count <= product < (hi/10)^count
RECURSIVE FloorTenthsOfMean(_, _, _, _)
FloorTenthsOfMean(product, count, lo, hi) ==
    IF hi <= lo + 1 THEN lo
    ELSE LET mid == (lo + hi) \div 2
         IN  IF RLt(product, RPower(Rat(mid, 10), count))
             THEN FloorTenthsOfMean(product, count, lo, mid)
             ELSE FloorTenthsOfMean(product, count, mid, hi)

\* f"{pooled_dor:.1f}" of np.exp(np.mean(log_dors)); the mean lies below the
\* largest odds ratio pooled, here below DorLimit
FormatPooledDor1(dor) ==
    LET k == FloorTenthsOfMean(dor.product, dor.count, 0, 10 * DorLimit)
        half == RPower(Rat(2 * k + 1, 20), dor.count)
    IN  Printed(IF RLt(dor.product, half) THEN k
                ELSE IF RLt(half, dor.product) THEN k + 1
                ELSE IF k % 2 = 0 THEN k ELSE k + 1)

\* one row of the summary table of create_summary_tables:
\*   'Pooled_Sensitivity_%': f"{result['pooled_sensitivity']*100:.1f}", ...
\*   'Pooled_DOR': f"{result['pooled_dor']:.1f}" if result['pooled_dor'] else 'NR'
\* (the geometric mean of positive odds ratios is positive, hence true)
RealSummaryRow(biomarker, result) ==
    [ Biomarker |-> biomarker,
      N_Studies |-> result.n_studies,
      Pooled_Sensitivity |-> Format1(RMul(result.pooled_sensitivity, Int2Rat(100))),
      Sensitivity_95CI |->
          <<FormatSurd1(SurdTimes100(result.sensitivity_ci_lower)),
            FormatSurd1(SurdTimes100(result.sensitivity_ci_upper))>>,
      Pooled_Specificity |-> Format1(RMul(result.pooled_specificity, Int2Rat(100))),
      Specificity_95CI |->
          <<FormatSurd1(SurdTimes100(result.specificity_ci_lower)),
            FormatSurd1(SurdTimes100(result.specificity_ci_upper))>>,
      Pooled_DOR |-> IF result.pooled_dor.kind = "number"
                     THEN FormatPooledDor1(result.pooled_dor) ELSE NR ]

\* create_summary_tables, after perform_comprehensive_meta_analysis
CreateSummaryTables ==
    /\ script = "real" /\ pc = "done" /\ calls = <<>>
    /\ summary_data' = [b \in DOMAIN meta_results |-> RealSummaryRow(b, meta_results[b])]
    /\ pc' = "tabled"
    /\ UNCHANGED <<pipeline, calls, script, studies_data, meta_results, todo, ret, data,
                   results, performance_data, locals>>

-----------------------------------------------------------------------------
(* AnalysisPipeline (run_complete_analysis.py) *)

\* required_packages of check_dependencies
required_packages ==
    <<"pandas", "numpy", "matplotlib", "seaborn", "scipy", "scikit-learn", "openpyxl">>

RequiredPackages == {required_packages[i] : i \in DOMAIN required_packages}

\* the module a distribution installs: scikit-learn installs sklearn, every
\* other required package a module of its own name
ImportName(package) == IF package = "scikit-learn" THEN "sklearn" ELSE package

\* the distributions installed in the explored environments: all the
\* required ones, or all but one
Installations ==
    {RequiredPackages} \cup {RequiredPackages \ {p} : p \in {"pandas", "scikit-learn"}}

\* modules on the path that no required distribution installs: none, or one
\* whose name is literally scikit-learn
StrayModules == {{}, {"scikit-learn"}}

\* the modules __import__ can find
Modules(installed, stray) == {ImportName(p) : p \in installed} \cup stray

\* __import__(package) raises ImportError unless a module of that name exists
Importable(package, installed, stray) == package \in Modules(installed, stray)

\* missing_packages after the loop of check_dependencies
MissingPackages(installed, stray) ==
    LET Missing(package) == ~Importable(package, installed, stray)
    IN  SelectSeq(required_packages, Missing)

\* the (script, description) lists of the three phases, in the order of
\* the list phases of run_complete_pipeline
PhaseScripts ==
    << <<"comprehensive_literature_extraction.py", "extract_detailed_studies.py">>,
       <<"real_data_meta_analysis.py", "automated_meta_analysis.py">>,
       <<"create_publication_figures.py", "create_publication_tables.py">> >>

PhaseNames == <<"Data Extraction", "Meta-Analysis", "Visualization">>

\* what subprocess.run does: the script exits 0, exits non-zero, or the call raises
Outcomes == {"exit0", "nonzero", "exception"}

\* every outcome reported as success
run_script_IgnoresFailure(outcome) == TRUE

\* run_script: False on a non-zero return code or an exception, True otherwise
run_script(outcome) == outcome = "exit0"

PipelineStart ==
    [ installed |-> {}, stray |-> {}, dependencies |-> "unchecked",
      missing_packages |-> <<>>, directories |-> FALSE,
      phase |-> 0, index |-> 0,
      started |-> <<>>, exits |-> <<>>, skipped |-> {},
      completed |-> <<>>, summary |-> FALSE, returned |-> "nothing" ]

\* run_complete_pipeline up to the dependency check: check_dependencies, and
\* the return of False when it fails
CheckDependencies ==
    /\ script = "pipeline" /\ pc = "start"
    /\ \E installed \in Installations, stray \in StrayModules :
          LET missing_packages == MissingPackages(installed, stray)
          IN  IF missing_packages # <<>>
              THEN /\ pipeline' = [pipeline EXCEPT !.installed = installed,
                                                   !.stray = stray,
                                                   !.missing_packages = missing_packages,
                                                   !.dependencies = "False",
                                                   !.returned = "False"]
                   /\ pc' = "failed"
              ELSE /\ pipeline' = [pipeline EXCEPT !.installed = installed,
                                                   !.stray = stray,
                                                   !.dependencies = "True"]
                   /\ pc' = "checked"
    /\ UNCHANGED <<summary_data, calls, script, studies_data, meta_results, todo, ret,
                   data, results, performance_data, locals>>

\* create_output_directories, then the loop over the phases begins
CreateOutputDirectories ==
    /\ script = "pipeline" /\ pc = "checked"
    /\ pipeline' = [pipeline EXCEPT !.directories = TRUE, !.phase = 1, !.index = 1]
    /\ pc' = "phases"
    /\ UNCHANGED <<summary_data, calls, script, studies_data, meta_results, todo, ret,
                   data, results, performance_data, locals>>

\* the pipeline after the script at (phase, index) has been dealt with and
\* the loops go on: the next script of the phase, or the phase returns True
\* and the next phase begins
Advance(p) ==
    IF p.index < Len(PhaseScripts[p.phase])
    THEN [p EXCEPT !.index = @ + 1]
    ELSE [p EXCEPT !.completed = Append(@, PhaseNames[p.phase]),
                   !.phase = @ + 1, !.index = 1]

\* one iteration of the loop of a phase over its scripts: a script that exists
\* is run, and its failure makes the phase and then the pipeline return False;
\* a script that does not exist is logged and passed over
RunNextScript ==
    /\ script = "pipeline" /\ pc = "phases"
    /\ pipeline.phase <= Len(PhaseScripts)
    /\ LET name == PhaseScripts[pipeline.phase][pipeline.index]
       IN  \/ \E outcome \in Outcomes :
                 LET ran == [pipeline EXCEPT !.started = Append(@, name),
                                             !.exits = Append(@, outcome)]
                 IN  IF run_script(outcome)
                     THEN /\ pipeline' = Advance(ran)
                          /\ pc' = "phases"
                     ELSE /\ pipeline' = [ran EXCEPT !.returned = "False"]
                          /\ pc' = "failed"
           \/ /\ pipeline' = Advance([pipeline EXCEPT !.skipped = @ \cup {name}])
              /\ pc' = "phases"
    /\ UNCHANGED <<summary_data, calls, script, studies_data, meta_results, todo, ret,
                   data, results, performance_data, locals>>

\* after the last phase: generate_summary_report writes ANALYSIS_SUMMARY.md
\* and run_complete_pipeline returns True
GenerateSummaryReport ==
    /\ script = "pipeline" /\ pc = "phases"
    /\ pipeline.phase > Len(PhaseScripts)
    /\ pipeline' = [pipeline EXCEPT !.summary = TRUE, !.returned = "True"]
    /\ pc' = "done"
    /\ UNCHANGED <<summary_data, calls, script, studies_data, meta_results, todo, ret,
                   data, results, performance_data, locals>>

Init ==
    /\ script \in {"real", "auto", "framework", "pool", "pipeline"}
    /\ pc = "start"
    /\ studies_data = <<>>
    /\ meta_results = EmptyDict
    /\ todo = {}
    /\ ret = EmptyDict
    /\ data = <<>>
    /\ results = EmptyDict
    /\ performance_data = <<>>
    /\ locals = EmptyDict
    /\ calls = <<>>
    /\ summary_data = <<>>
    /\ pipeline = PipelineStart

Next ==
    \/ ComprehensiveBegin
    \/ ComprehensiveIterate
    \/ ComprehensiveReturn
    \/ CallPerformMetaAnalysisBiomarker
    \/ PoolMeasurements
    \/ LoadData
    \/ LoadDataFails
    \/ PerformMetaAnalysisByBiomarker
    \/ CallCalculatePooledEstimates
    \/ FillPerformanceData
    \/ PerformAutomatedMetaAnalysis
    \/ CheckDependencies
    \/ CreateOutputDirectories
    \/ RunNextScript
    \/ GenerateSummaryReport
    \/ GenerateMetaAnalysisReport
    \/ CreateSummaryTables

Spec == Init /\ [][Next]_vars

-----------------------------------------------------------------------------
(* Properties *)

CountStudies(sd, b) == Cardinality({i \in DOMAIN sd : sd[i].biomarker = b})

CountRows(rows, b, col) ==
    Cardinality({i \in DOMAIN rows : rows[i].biomarker_name = b /\ ~rows[i][col].nan})

Hundred == Int2Rat(100)

RInRange(x, hi) == RLe(Zero, x) /\ RLe(x, hi)

\* C1: pooling is never performed on fewer than 2 studies.  A biomarker with
\* fewer than 2 studies makes perform_meta_analysis_biomarker return None and
\* gets no entry in meta_results; a result of AutomatedMetaAnalysis carries a
\* pooled sensitivity (specificity) only if at least 2 rows of the biomarker
\* have that metric; every stored result has n_studies >= 2.
C1_PoolingNeedsTwoStudies ==
    /\ script = "real" =>
          /\ \A b \in DOMAIN ret :
                CountStudies(studies_data, b) < 2 =>
                    ret[b] = None /\ b \notin DOMAIN meta_results
          /\ \A b \in DOMAIN meta_results :
                CountStudies(studies_data, b) >= 2 /\ meta_results[b].n_studies >= 2
    /\ script = "auto" =>
          \A b \in DOMAIN results :
             /\ results[b].n_studies >= 2
             /\ "pooled_sensitivity" \in DOMAIN results[b] =>
                    CountRows(data, b, "sensitivity_mean") >= 2
             /\ "pooled_specificity" \in DOMAIN results[b] =>
                    CountRows(data, b, "specificity_mean") >= 2

\* a biomarker with a single study was called and returned None
C1_Witness ==
    /\ script = "real" /\ pc = "done"
    /\ \E b \in DOMAIN ret : CountStudies(studies_data, b) = 1 /\ ret[b] = None

\* C2: every I2 value computed (sensitivity_i2 / specificity_i2 of
\* perform_meta_analysis_biomarker, the *_heterogeneity fields of the two
\* calculate_heterogeneity functions) lies in [0, 100].
C2_I2InRange ==
    /\ script = "real" =>
          \A b \in DOMAIN meta_results :
             /\ RInRange(meta_results[b].sensitivity_i2, Hundred)
             /\ RInRange(meta_results[b].specificity_i2, Hundred)
    /\ \A b \in DOMAIN results :
          /\ "sensitivity_heterogeneity" \in DOMAIN results[b] =>
                 RInRange(results[b].sensitivity_heterogeneity, Hundred)
          /\ "specificity_heterogeneity" \in DOMAIN results[b] =>
                 RInRange(results[b].specificity_heterogeneity, Hundred)
    /\ script = "framework" =>
          \A b \in DOMAIN meta_results :
             /\ "sensitivity_heterogeneity" \in DOMAIN meta_results[b] =>
                    RInRange(meta_results[b].sensitivity_heterogeneity, Hundred)
             /\ "specificity_heterogeneity" \in DOMAIN meta_results[b] =>
                    RInRange(meta_results[b].specificity_heterogeneity, Hundred)

\* Q exceeds twice the degrees of freedom and I2 is strictly inside (0, 100)
C2_Witness ==
    /\ script = "real"
    /\ \E b \in DOMAIN meta_results :
          /\ RLt(Int2Rat(2 * locals[b].df), locals[b].sens_q)
          /\ RLt(Zero, meta_results[b].sensitivity_i2)
          /\ RLt(meta_results[b].sensitivity_i2, Hundred)

\* a confidence interval [lower, upper] around pooled, on the scale [0, hi]
CIWithin(lower, upper, pooled, se, hi) ==
    /\ ~SurdLtRat(lower, Zero) /\ ~SurdGtRat(lower, hi)
    /\ ~SurdLtRat(upper, Zero) /\ ~SurdGtRat(upper, hi)
    /\ ~SurdGtRat(lower, pooled) /\ ~SurdLtRat(upper, pooled)
    /\ ~RIsZero(se.r) =>
          /\ SurdLtRat(lower, pooled) \/ SurdEqRat(lower, Zero)
          /\ SurdGtRat(upper, pooled) \/ SurdEqRat(upper, hi)

\* C3: the confidence bounds of a pooled estimate lie in [0, scaleMax]
\* (1 in perform_meta_analysis_biomarker, 100 in calculate_confidence_interval)
\* with lower <= pooled <= upper, and when the standard error is positive each
\* bound is strictly off the estimate or clipped at the range limit.
C3_ConfidenceIntervalBrackets ==
    /\ script = "real" =>
          \A b \in DOMAIN meta_results :
             LET r == meta_results[b]
             IN  /\ CIWithin(r.sensitivity_ci_lower, r.sensitivity_ci_upper,
                             r.pooled_sensitivity, locals[b].sens_se, One)
                 /\ CIWithin(r.specificity_ci_lower, r.specificity_ci_upper,
                             r.pooled_specificity, locals[b].spec_se, One)
    /\ \A b \in DOMAIN results :
          LET r == results[b]
          IN  /\ "pooled_sensitivity" \in DOMAIN r =>
                     CIWithin(r.sensitivity_ci_lower, r.sensitivity_ci_upper,
                              r.pooled_sensitivity, r.sensitivity_se, Hundred)
              /\ "pooled_specificity" \in DOMAIN r =>
                     CIWithin(r.specificity_ci_lower, r.specificity_ci_upper,
                              r.pooled_specificity, r.specificity_se, Hundred)
    /\ script = "framework" =>
          \A b \in DOMAIN meta_results :
             LET r == meta_results[b]
             IN  /\ "pooled_sensitivity" \in DOMAIN r =>
                        CIWithin(r.sensitivity_ci_lower, r.sensitivity_ci_upper,
                                 r.pooled_sensitivity, locals[b].sens_se, Hundred)
                 /\ "pooled_specificity" \in DOMAIN r =>
                        CIWithin(r.specificity_ci_lower, r.specificity_ci_upper,
                                 r.pooled_specificity, locals[b].spec_se, Hundred)

\* a positive standard error with one interval clipped at 0 and another
\* interval left unclipped on both sides
C3_Witness ==
    /\ script = "real"
    /\ \E b \in DOMAIN meta_results :
          LET r == meta_results[b]
          IN  /\ ~RIsZero(locals[b].sens_se.r)
              /\ SurdEqRat(r.sensitivity_ci_lower, Zero)
              /\ ~RIsZero(locals[b].spec_se.r)
              /\ SurdGtRat(r.specificity_ci_lower, Zero)
              /\ SurdLtRat(r.specificity_ci_upper, One)

\* pooled * Sum(w) = Sum(e * w)
IsWeightedMean(pooled, values, weights) ==
    RMul(pooled, Int2Rat(SumInt(weights))) = WeightedSum(values, weights)

\* C4: a pooled sensitivity or specificity is the weighted mean of the
\* study estimates, the weights being the sample sizes:
\* pooled * Sum(w_i) = Sum(e_i * w_i).
C4_PooledIsWeightedMean ==
    /\ script = "real" =>
          \A b \in DOMAIN meta_results :
             /\ Len(locals[b].weights) >= 2
             /\ IsWeightedMean(meta_results[b].pooled_sensitivity,
                               locals[b].sensitivities, locals[b].weights)
             /\ IsWeightedMean(meta_results[b].pooled_specificity,
                               locals[b].specificities, locals[b].weights)
    /\ \A b \in DOMAIN results :
          /\ "pooled_sensitivity" \in DOMAIN results[b] =>
                 IsWeightedMean(results[b].pooled_sensitivity,
                                Column(locals[b].sens_data, "sensitivity_mean"),
                                locals[b].sens_weights)
          /\ "pooled_specificity" \in DOMAIN results[b] =>
                 IsWeightedMean(results[b].pooled_specificity,
                                Column(locals[b].spec_data, "specificity_mean"),
                                locals[b].spec_weights)

\* two studies with different estimates and different weights were pooled
C4_Witness ==
    /\ script = "auto"
    /\ \E b \in DOMAIN results :
          /\ "pooled_sensitivity" \in DOMAIN results[b]
          /\ locals[b].sens_weights[1] # locals[b].sens_weights[2]
          /\ locals[b].sens_data[1].sensitivity_mean # locals[b].sens_data[2].sensitivity_mean

AllEqual(values) == \A i \in DOMAIN values : values[i] = values[1]

\* pooling identical estimates v collapses onto v
CollapsesTo(v, pooled, se, lower, upper, i2) ==
    /\ pooled = v
    /\ RIsZero(se.r)
    /\ RIsZero(i2)
    /\ SurdEqRat(lower, v) /\ SurdEqRat(upper, v)

ExpectedWeight(row) ==
    IF ~row.n_patients.nan /\ ~row.n_controls.nan /\ row.n_patients.v + row.n_controls.v > 0
    THEN row.n_patients.v + row.n_controls.v
    ELSE 1

WeightsAsExpected(rows, weights) ==
    /\ Len(weights) = Len(rows)
    /\ \A i \in DOMAIN rows : weights[i] = ExpectedWeight(rows[i]) /\ weights[i] > 0

\* C6: both calculate_weights return one weight per row, in row order, equal
\* to n_patients + n_controls when that sum is a positive number and 1
\* otherwise; no weight is zero or negative.
C6_WeightsPositiveInOrder ==
    script \in {"auto", "framework"} =>
       \A b \in DOMAIN locals :
          /\ WeightsAsExpected(locals[b].sens_data, locals[b].sens_weights)
          /\ WeightsAsExpected(locals[b].spec_data, locals[b].spec_weights)

\* a table with a sized row after a row whose sample size is not positive
C6_Witness ==
    /\ script = "auto"
    /\ \E b \in DOMAIN locals :
          LET l == locals[b]
          IN  /\ Len(l.sens_data) = 2
              /\ l.sens_weights = <<1, 3>>
              /\ ~l.sens_data[1].n_patients.nan
              /\ l.sens_data[1].n_patients.v + l.sens_data[1].n_controls.v <= 0

\* C7: in perform_meta_analysis_biomarker each study's weight is
\* tp + fp + fn + tn when that total is positive and 1 otherwise, so every
\* weight used for pooling is strictly positive.
C7_CountWeightsFallBackToOne ==
    script = "real" =>
       \A b \in DOMAIN locals :
          locals[b].outcome # "None" =>
             \A i \in DOMAIN locals[b].weights :
                LET st == locals[b].biomarker_studies[i]
                    total == st.tp + st.fp + st.fn + st.tn
                IN  /\ locals[b].weights[i] = (IF total > 0 THEN total ELSE 1)
                    /\ locals[b].weights[i] > 0

\* C8: pooling 2 or more study records never raises and yields a result whose
\* estimates, bounds and I2 are all defined; the only failure is the
\* insufficient-studies case.
C8_PoolingIsTotal ==
    /\ script = "real" =>
          /\ pc # "raised"
          /\ \A b \in DOMAIN ret :
                CountStudies(studies_data, b) >= 2 => ret[b].kind = "result"
    /\ script = "auto" =>
          \A b \in DOMAIN results :
             CountRows(data, b, "sensitivity_mean") >= 2 =>
                {"pooled_sensitivity", "sensitivity_se", "sensitivity_ci_lower",
                 "sensitivity_ci_upper", "sensitivity_heterogeneity"} \subseteq DOMAIN results[b]

IsBoundary(x) == x = Zero \/ x = Hundred

\* C9: calculate_diagnostic_odds_ratio returns None exactly when the pooled
\* sensitivity or the pooled specificity is 0 or 100, and a finite number for
\* every other pair.
C9_DorNoneExactlyAtBoundary ==
    \A b \in DOMAIN results :
       "diagnostic_odds_ratio" \in DOMAIN results[b] =>
          LET r == results[b]
              boundary == IsBoundary(r.pooled_sensitivity) \/ IsBoundary(r.pooled_specificity)
          IN  /\ r.diagnostic_odds_ratio.kind = "None" <=> boundary
              /\ ~boundary => r.diagnostic_odds_ratio.kind = "number"

\* a sensitivity strictly inside (0, 100) with a specificity of 100
C9_Witness ==
    \E b \in DOMAIN results :
       /\ "diagnostic_odds_ratio" \in DOMAIN results[b]
       /\ ~IsBoundary(results[b].pooled_sensitivity)
       /\ results[b].pooled_specificity = Hundred
       /\ results[b].diagnostic_odds_ratio.kind = "None"

\* C10: for sensitivity and specificity strictly inside (0, 100), with
\* s = sensitivity / 100 and c = specificity / 100, the returned DOR satisfies
\* DOR * (1 - s) * (1 - c) = s * c.
C10_DorFormula ==
    \A b \in DOMAIN results :
       ("diagnostic_odds_ratio" \in DOMAIN results[b]
          /\ ~IsBoundary(results[b].pooled_sensitivity)
          /\ ~IsBoundary(results[b].pooled_specificity)) =>
          LET s == RDiv(results[b].pooled_sensitivity, Hundred)
              c == RDiv(results[b].pooled_specificity, Hundred)
              dor == results[b].diagnostic_odds_ratio
          IN  /\ dor.kind = "number"
              /\ RMul(RMul(dor.v, RSub(One, s)), RSub(One, c)) = RMul(s, c)

\* a pooled sensitivity of 75 with a pooled specificity of 87.5: DOR = 3 * 7
C10_Witness ==
    \E b \in DOMAIN results :
       /\ "diagnostic_odds_ratio" \in DOMAIN results[b]
       /\ results[b].pooled_sensitivity = Int2Rat(75)
       /\ results[b].pooled_specificity = Rat(175, 2)
       /\ results[b].diagnostic_odds_ratio = [kind |-> "number", v |-> Int2Rat(21)]

\* C11: the per-study diagnostic odds ratio of a 2x2 table is
\* (tp * tn) / (fp * fn) whenever fp * fn # 0 and float('inf') exactly when
\* fp * fn = 0.
C11_PairwiseDor ==
    script = "real" =>
       \A b \in DOMAIN locals :
          locals[b].outcome # "None" =>
             \A i \in DOMAIN locals[b].study_metrics :
                LET m == locals[b].study_metrics[i]
                    st == locals[b].biomarker_studies[i]
                IN  /\ m.dor.inf <=> (st.fp * st.fn = 0)
                    /\ ~m.dor.inf => RMul(m.dor.v, Int2Rat(st.fp * st.fn)) = Int2Rat(st.tp * st.tn)

\* the table tp=56, fp=10, fn=14, tn=60 gives 24, next to a table with fp = 0
C11_Witness ==
    /\ script = "real"
    /\ \E b \in DOMAIN locals :
          /\ locals[b].outcome = "result"
          /\ \E i, j \in DOMAIN locals[b].study_metrics :
                /\ locals[b].biomarker_studies[i] =
                       [biomarker |-> b, tp |-> 56, fp |-> 10, fn |-> 14, tn |-> 60]
                /\ locals[b].study_metrics[i].dor = [inf |-> FALSE, v |-> Int2Rat(24)]
                /\ locals[b].biomarker_studies[j].fp = 0
                /\ locals[b].biomarker_studies[j].tp > 0
                /\ locals[b].study_metrics[j].dor.inf

\* C12: a result of calculate_pooled_estimates has a diagnostic_odds_ratio
\* entry exactly when it has both pooled_sensitivity and pooled_specificity,
\* and the entry is a number only if both lie strictly between 0 and 100.
C12_DorOnlyWithBothPooled ==
    \A b \in DOMAIN results :
       LET r == results[b]
           both == "pooled_sensitivity" \in DOMAIN r /\ "pooled_specificity" \in DOMAIN r
       IN  /\ "diagnostic_odds_ratio" \in DOMAIN r <=> both
           /\ ("diagnostic_odds_ratio" \in DOMAIN r /\ r.diagnostic_odds_ratio.kind = "number") =>
                  /\ RLt(Zero, r.pooled_sensitivity) /\ RLt(r.pooled_sensitivity, Hundred)
                  /\ RLt(Zero, r.pooled_specificity) /\ RLt(r.pooled_specificity, Hundred)

\* a result with a pooled sensitivity, no pooled specificity and no odds ratio
C12_Witness ==
    \E b \in DOMAIN results :
       /\ "pooled_sensitivity" \in DOMAIN results[b]
       /\ "pooled_specificity" \notin DOMAIN results[b]
       /\ results[b].n_studies_spec = 1
       /\ "diagnostic_odds_ratio" \notin DOMAIN results[b]

\* p2 lies strictly nearer to e than p, on the same side; p = e stays
MovesToward(p, p2, e) ==
    IF p = e THEN p2 = p
    ELSE IF RLt(p, e) THEN RLt(p, p2) /\ RLe(p2, e)
    ELSE RLt(p2, p) /\ RLe(e, p2)

AllPositive(weights) == \A i \in DOMAIN weights : weights[i] > 0

\* the pooled sensitivity of perform_meta_analysis_biomarker for the studies sd
\* of one biomarker
\* of one biomarker: the weighted average of the 'sensitivity' entries of
\* their metrics, weighted by the 'n_total' entries
RealPooledSensitivity(sd, b) ==
    NpAverage([i \in DOMAIN sd |-> StudySensitivity(sd[i])],
              [i \in DOMAIN sd |-> StudyTotal(sd[i])])

\* the pooled sensitivity of calculate_pooled_estimates for the rows:
\*   sens_data = data[data['sensitivity_mean'].notna()]
\*   np.average(sens_data['sensitivity_mean'], weights=self.calculate_weights(sens_data))
AutoPooledSensitivity(rows, b) ==
    LET sens_data == SelectSeq(rows, HasSens)
    IN  NpAverage(Column(sens_data, "sensitivity_mean"), calculate_weights(sens_data))

\* a row whose sample size is a positive number, which is then its weight
SizedRow(row) ==
    ~row.n_patients.nan /\ ~row.n_controls.nan /\ row.n_patients.v + row.n_controls.v > 0

\* C13: pooling again with one study's weight increased (more controls in
\* its 2x2 table, more patients in its table row), every estimate and every
\* other weight unchanged, gives a pooled sensitivity strictly nearer to that
\* study's sensitivity, or the same one when it already equals it.
C13_WeightMonotonicity ==
    /\ script = "real" =>
          \A b \in DOMAIN meta_results :
             LET l == locals[b]
                 sd == l.biomarker_studies
             IN  (l.outcome = "result" /\ AllPositive(l.weights)) =>
                    \A i \in DOMAIN sd : \A d \in 1..MaxIncrease :
                       MovesToward(l.pooled_sensitivity,
                                   RealPooledSensitivity([sd EXCEPT ![i].tn = @ + d], b),
                                   l.sensitivities[i])
    /\ script = "auto" =>
          \A b \in DOMAIN results :
             "pooled_sensitivity" \in DOMAIN results[b] =>
                LET rows == locals[b].sens_data
                IN  \A i \in DOMAIN rows : \A d \in 1..MaxIncrease :
                       LET rows2 == [rows EXCEPT ![i].n_patients = Num(@.v + d)]
                       IN  SizedRow(rows[i]) =>
                              MovesToward(results[b].pooled_sensitivity,
                                          AutoPooledSensitivity(rows2, b),
                                          Int2Rat(rows[i].sensitivity_mean.v))

\* two rows with different sensitivities were pooled, and one more patient in
\* the first row changes the pooled sensitivity
C13_Witness ==
    /\ script = "auto"
    /\ \E b \in DOMAIN results :
          /\ "pooled_sensitivity" \in DOMAIN results[b]
          /\ LET rows == locals[b].sens_data
                 rows2 == [rows EXCEPT ![1].n_patients = Num(@.v + 1)]
             IN  /\ SizedRow(rows[1])
                 /\ rows[1].sensitivity_mean # rows[2].sensitivity_mean
                 /\ AutoPooledSensitivity(rows2, b) # results[b].pooled_sensitivity

\* Q = Sum(w_i * (e_i - pooled)^2)
QStatistic(values, weights, pooled) == WeightedSum(SqDev(values, pooled), weights)

\* I2 is 0 when Q <= df and ((Q - df) / Q) * 100 otherwise
FollowsQRule(i2, values, weights, pooled) ==
    LET q == QStatistic(values, weights, pooled)
        df == Int2Rat(Len(values) - 1)
    IN  /\ RLe(q, df) => i2 = Zero
        /\ RLt(df, q) => RMul(i2, q) = RMul(RSub(q, df), Hundred)
        /\ RLt(Zero, i2) <=> RLt(df, q)

\* C14: with Q = Sum(w_i * (e_i - pooled)^2) and df = nStudies - 1, every
\* I2 is 0 when Q <= df and ((Q - df) / Q) * 100 otherwise, so I2 > 0 exactly
\* when Q > df.
C14_I2FollowsQRule ==
    /\ script = "real" =>
          \A b \in DOMAIN meta_results :
             LET r == meta_results[b]
                 l == locals[b]
             IN  /\ FollowsQRule(r.sensitivity_i2, l.sensitivities, l.weights,
                                  r.pooled_sensitivity)
                 /\ FollowsQRule(r.specificity_i2, l.specificities, l.weights,
                                  r.pooled_specificity)
    /\ \A b \in DOMAIN results :
          LET r == results[b]
              l == locals[b]
          IN  /\ "pooled_sensitivity" \in DOMAIN r =>
                     FollowsQRule(r.sensitivity_heterogeneity,
                                  Column(l.sens_data, "sensitivity_mean"), l.sens_weights,
                                  r.pooled_sensitivity)
              /\ "pooled_specificity" \in DOMAIN r =>
                     FollowsQRule(r.specificity_heterogeneity,
                                  Column(l.spec_data, "specificity_mean"), l.spec_weights,
                                  r.pooled_specificity)

\* a table whose sensitivities give Q > df, and so an I2 above 0
C14_Witness ==
    /\ script = "auto"
    /\ \E b \in DOMAIN results :
          /\ "pooled_sensitivity" \in DOMAIN results[b]
          /\ RLt(Int2Rat(Len(locals[b].sens_data) - 1),
                 QStatistic(Column(locals[b].sens_data, "sensitivity_mean"),
                            locals[b].sens_weights, results[b].pooled_sensitivity))
          /\ RLt(Zero, results[b].sensitivity_heterogeneity)

\* the sample size n_patients + n_controls of the row is missing
Unsized(row) == row.n_patients.nan \/ row.n_controls.nan

\* the rows of biomarker b that carry the metric col
RowsWith(rows, b, col) ==
    LET Has(row) == row.biomarker_name = b /\ ~row[col].nan
    IN  SelectSeq(rows, Has)

\* pooled * n = Sum(e_i)
IsPlainMean(pooled, values) == RMul(pooled, Int2Rat(Len(values))) = RSum(values)

\* C15: when 2 or more rows of a biomarker carry a metric and the sample
\* size of each of them is missing, the biomarker is still pooled and the
\* pooled estimate of that metric is the unweighted mean of the estimates.
C15_MissingSizesGivePlainMean ==
    (script = "auto" /\ pc = "analysed") =>
       \A b \in UniqueNames(data) :
          LET sens == RowsWith(data, b, "sensitivity_mean")
              spec == RowsWith(data, b, "specificity_mean")
          IN  /\ (Len(sens) >= 2 /\ \A i \in DOMAIN sens : Unsized(sens[i])) =>
                     /\ b \in DOMAIN results
                     /\ "pooled_sensitivity" \in DOMAIN results[b]
                     /\ IsPlainMean(results[b].pooled_sensitivity,
                                    Column(sens, "sensitivity_mean"))
              /\ (Len(spec) >= 2 /\ \A i \in DOMAIN spec : Unsized(spec[i])) =>
                     /\ b \in DOMAIN results
                     /\ "pooled_specificity" \in DOMAIN results[b]
                     /\ IsPlainMean(results[b].pooled_specificity,
                                    Column(spec, "specificity_mean"))

\* two rows without sample size, with sensitivities 0 and 100, pooled to 50
C15_Witness ==
    /\ script = "auto" /\ pc = "analysed"
    /\ \E b \in DOMAIN results :
          LET sens == RowsWith(data, b, "sensitivity_mean")
          IN  /\ Len(sens) = 2
              /\ \A i \in DOMAIN sens : Unsized(sens[i])
              /\ sens[1].sensitivity_mean # sens[2].sensitivity_mean
              /\ locals[b].sens_weights = <<1, 1>>
              /\ results[b].pooled_sensitivity = Int2Rat(50)

\* p = k / n, or 0 when n = 0, with p and its confidence bounds in [0, 1]
IsProportion(p, lower, upper, k, n) ==
    /\ n > 0 => RMul(p, Int2Rat(n)) = Int2Rat(k)
    /\ n = 0 => p = Zero
    /\ RInRange(p, One)
    /\ ~SurdLtRat(lower, Zero) /\ ~SurdGtRat(lower, One)
    /\ ~SurdLtRat(upper, Zero) /\ ~SurdGtRat(upper, One)

\* C16: the per-study sensitivity is tp / (tp + fn) and the specificity
\* tn / (tn + fp); both of them and their per-study confidence bounds lie in
\* [0, 1], also when a denominator is zero.
C16_StudyProportionsInUnitRange ==
    script = "real" =>
       \A b \in DOMAIN locals :
          locals[b].outcome # "None" =>
             \A i \in DOMAIN locals[b].study_metrics :
                LET m == locals[b].study_metrics[i]
                    st == locals[b].biomarker_studies[i]
                IN  /\ IsProportion(m.sensitivity, m.sens_ci_lower, m.sens_ci_upper,
                                     st.tp, st.tp + st.fn)
                    /\ IsProportion(m.specificity, m.spec_ci_lower, m.spec_ci_upper,
                                     st.tn, st.tn + st.fp)

\* a study without diseased subjects (tp + fn = 0) next to a study whose
\* sensitivity of 1/2 has both confidence bounds clipped
C16_Witness ==
    /\ script = "real"
    /\ \E b \in DOMAIN locals :
          /\ locals[b].outcome = "result"
          /\ \E i, j \in DOMAIN locals[b].study_metrics :
                LET mi == locals[b].study_metrics[i]
                    mj == locals[b].study_metrics[j]
                IN  /\ mi.tp + mi.fn = 0 /\ mi.sensitivity = Zero
                    /\ mj.sensitivity = Rat(1, 2)
                    /\ SurdEqRat(mj.sens_ci_lower, Zero)
                    /\ SurdEqRat(mj.sens_ci_upper, One)

\* x rounded to three decimal places, in thousandths
Round3(x) == (2000 * x[1] + x[2]) \div (2 * x[2])

\* the measurements (0.80, 140), (0.74, 196), (0.71, 102)
ScenarioMeasurements ==
    << [est |-> Rat(80, 100), w |-> 140],
       [est |-> Rat(74, 100), w |-> 196],
       [est |-> Rat(71, 100), w |-> 102] >>

ScenarioPooled ==
    script = "pool" /\ pc = "done" /\ locals["GDF-15"].measurements = ScenarioMeasurements

\* C17 as stated: the measurements (0.80, 140), (0.74, 196), (0.71, 102) pool
\* to 0.754 to three decimal places.
C17_ScenarioPoolsTo754 ==
    ScenarioPooled => Round3(locals["GDF-15"].pooled_sensitivity) = 754

\* C17, amended: the measurements (0.80, 140), (0.74, 196), (0.71, 102) pool
\* to 329.46 / 438 = 0.752 to three decimal places.
C17_ScenarioPoolsTo752 ==
    ScenarioPooled =>
       /\ locals["GDF-15"].pooled_sensitivity = Rat(32946, 43800)
       /\ Round3(locals["GDF-15"].pooled_sensitivity) = 752

\* the three measurements were pooled
C17_Witness ==
    ScenarioPooled /\ Round3(locals["GDF-15"].pooled_sensitivity) = 752

OwnRows(rows, b) ==
    LET Own(row) == row.biomarker_name = b
    IN  SelectSeq(rows, Own)

\* the biomarkers of the loaded studies whose own studies pool to a result
PoolableBiomarkers(sd) ==
    {b \in BiomarkerSet(sd) :
        perform_meta_analysis_biomarker(BiomarkerStudies(sd, b), b).kind = "result"}

C20_InputsReadOnly ==
    [][ /\ (script = "real" /\ pc # "start") => studies_data' = studies_data
        /\ (script = "real" /\ calls' # calls) => meta_results' = meta_results
        /\ (script = "auto" /\ pc # "start") => data' = data
      ]_vars

\* a direct call for a biomarker with a single study returned None, and
\* meta_results has no entry for it
C20_Witness ==
    /\ script = "real" /\ calls # <<>>
    /\ CountStudies(studies_data, calls[1]) = 1
    /\ ret[calls[1]] = None
    /\ calls[1] \notin DOMAIN meta_results

-----------------------------------------------------------------------------
\* the three I2 computations applied to the same estimates and weights
SameI2(values, weights) ==
    LET inline == InlineI2(QStatistic(values, weights, NpAverage(values, weights)),
                           Len(values) - 1)
    IN  /\ calculate_heterogeneity(values, weights) = inline
        /\ fw_calculate_heterogeneity(values, weights) = inline

\* C21: for the estimates (>= 2) and the positive weights that any of the
\* three scripts pooled, AutomatedMetaAnalysis.calculate_heterogeneity,
\* SystematicReviewAutomation.calculate_heterogeneity and the inline formula
\* of perform_meta_analysis_biomarker give the same I2, which is the one the
\* script stored; and the two calculate_weights give the same weights for the
\* rows of every loaded table. Stated where the loop has just stored its
\* results, which no later step changes.
C21_SameArithmetic ==
    /\ (script = "real" /\ pc = "loop") =>
          \A b \in DOMAIN meta_results :
             LET l == locals[b]
             IN  AllPositive(l.weights) =>
                    /\ SameI2(l.sensitivities, l.weights)
                    /\ SameI2(l.specificities, l.weights)
                    /\ meta_results[b].sensitivity_i2 =
                          fw_calculate_heterogeneity(l.sensitivities, l.weights)
                    /\ meta_results[b].specificity_i2 =
                          calculate_heterogeneity(l.specificities, l.weights)
    /\ (script = "auto" /\ pc = "analysed" /\ calls = <<>>) =>
          /\ calculate_weights(data) = fw_calculate_weights(data)
          /\ \A b \in DOMAIN results :
                LET l == locals[b]
                IN  /\ "pooled_sensitivity" \in DOMAIN results[b] =>
                          /\ SameI2(Column(l.sens_data, "sensitivity_mean"), l.sens_weights)
                          /\ results[b].sensitivity_heterogeneity =
                                fw_calculate_heterogeneity(
                                    Column(l.sens_data, "sensitivity_mean"), l.sens_weights)
                    /\ "pooled_specificity" \in DOMAIN results[b] =>
                          SameI2(Column(l.spec_data, "specificity_mean"), l.spec_weights)
    /\ script = "framework" =>
          /\ calculate_weights(performance_data) = fw_calculate_weights(performance_data)
          /\ \A b \in DOMAIN meta_results :
                LET l == locals[b]
                IN  "pooled_sensitivity" \in DOMAIN meta_results[b] =>
                       SameI2(Column(l.sens_data, "sensitivity"), l.sens_weights)

\* studies with positive weights were pooled to a sensitivity I2 above 0
C21_Witness ==
    /\ script = "real"
    /\ \E b \in DOMAIN meta_results :
          /\ AllPositive(locals[b].weights)
          /\ RLt(Zero, meta_results[b].sensitivity_i2)
          /\ meta_results[b].sensitivity_i2 =
                fw_calculate_heterogeneity(locals[b].sensitivities, locals[b].weights)

-----------------------------------------------------------------------------
\* C22: when every required package is installed, check_dependencies returns
\* True and run_complete_pipeline goes on to the directories and the phases;
\* it returns False only when a required package is missing.
C22_DependenciesFollowInstallation ==
    (script = "pipeline" /\ pipeline.dependencies # "unchecked"
        /\ RequiredPackages \subseteq pipeline.installed) =>
       /\ pipeline.dependencies = "True"
       /\ pipeline.missing_packages = <<>>
       /\ pc = "failed" => pipeline.directories

\* the six listed scripts in the order of the phases
ListedScripts == PhaseScripts[1] \o PhaseScripts[2] \o PhaseScripts[3]

Position(name) == CHOOSE i \in DOMAIN ListedScripts : ListedScripts[i] = name

IsPrefix(s, t) == Len(s) <= Len(t) /\ \A i \in DOMAIN s : s[i] = t[i]

\* C23: the scripts are started in the order of the phases Data Extraction,
\* Meta-Analysis, Visualization; a script that exits non-zero or raises is the
\* last one started, the pipeline has then returned False and the summary
\* report is not written; so the report is written only when every script
\* that was run exited 0.
C23_FailFastOrdered ==
    script = "pipeline" =>
       /\ \A i, j \in DOMAIN pipeline.started :
             i < j => Position(pipeline.started[i]) < Position(pipeline.started[j])
       /\ IsPrefix(pipeline.completed, PhaseNames)
       /\ \A i \in DOMAIN pipeline.exits :
             pipeline.exits[i] # "exit0" =>
                /\ i = Len(pipeline.exits)
                /\ pc = "failed"
                /\ pipeline.returned = "False"
                /\ ~pipeline.summary
       /\ pipeline.summary =>
             \A i \in DOMAIN pipeline.exits : pipeline.exits[i] = "exit0"

\* the first meta-analysis script failed after both extraction scripts had
\* exited 0: the pipeline returned False with the visualization never started
C23_Witness ==
    /\ script = "pipeline" /\ pc = "failed"
    /\ pipeline.exits = <<"exit0", "exit0", "nonzero">>
    /\ pipeline.started[3] = "real_data_meta_analysis.py"
    /\ pipeline.completed = <<"Data Extraction">>
    /\ pipeline.returned = "False" /\ ~pipeline.summary

\* the phase that lists the script
PhaseOf(name) == CHOOSE k \in DOMAIN PhaseScripts :
                    \E i \in DOMAIN PhaseScripts[k] : PhaseScripts[k][i] = name

\* C24: when run_complete_pipeline has returned True, each of the six listed
\* scripts was run and exited 0; a phase that lists a script whose file does
\* not exist fails instead of completing without it.
C24_SuccessMeansAllScriptsRan ==
    script = "pipeline" =>
       /\ pipeline.returned = "True" =>
             /\ pipeline.started = ListedScripts
             /\ \A i \in DOMAIN pipeline.exits : pipeline.exits[i] = "exit0"
       /\ \A name \in pipeline.skipped :
             \A k \in DOMAIN pipeline.completed :
                pipeline.completed[k] # PhaseNames[PhaseOf(name)]

HasPooledMetric(result) ==
    "pooled_sensitivity" \in DOMAIN result \/ "pooled_specificity" \in DOMAIN result

\* C25: every entry of AutomatedMetaAnalysis.results and of
\* SystematicReviewAutomation.meta_results has a pooled sensitivity or a
\* pooled specificity; a biomarker with fewer than 2 studies of either metric
\* is not stored.
C25_StoredResultsHavePooledMetric ==
    /\ script = "auto" => \A b \in DOMAIN results : HasPooledMetric(results[b])
    /\ script = "framework" => \A b \in DOMAIN meta_results : HasPooledMetric(meta_results[b])

\* C26: in the summary tables a cell is 'NR' exactly when its value is absent
\* (key missing or None); a computed value is printed as a number, a pooled
\* estimate of 0, an interval whose lower bound is 0 and a defined pooled odds
\* ratio included.
C26_NRExactlyWhenAbsent ==
    /\ (script = "auto" /\ pc = "reported") =>
          \A b \in DOMAIN summary_data :
             LET row == summary_data[b]
                 r == results[b]
             IN  /\ row.Pooled_Sensitivity = NR <=> "pooled_sensitivity" \notin DOMAIN r
                 /\ row.Sensitivity_95CI = NR <=> "sensitivity_ci_lower" \notin DOMAIN r
                 /\ row.Pooled_Specificity = NR <=> "pooled_specificity" \notin DOMAIN r
                 /\ row.Specificity_95CI = NR <=> "specificity_ci_lower" \notin DOMAIN r
                 /\ row.DOR = NR <=>
                       \/ "diagnostic_odds_ratio" \notin DOMAIN r
                       \/ r.diagnostic_odds_ratio = None
    /\ (script = "real" /\ pc = "tabled") =>
          \A b \in DOMAIN summary_data :
             LET row == summary_data[b]
                 r == meta_results[b]
             IN  /\ row.Pooled_Sensitivity # NR /\ row.Sensitivity_95CI # NR
                 /\ row.Pooled_Specificity # NR /\ row.Specificity_95CI # NR
                 /\ row.Pooled_DOR = NR <=> r.pooled_dor = None

\* min(e_i) <= pooled <= max(e_i)
WithinRange(pooled, values) ==
    /\ \E i \in DOMAIN values : RLe(values[i], pooled)
    /\ \E i \in DOMAIN values : RLe(pooled, values[i])

SwapFirstTwo(s) == IF Len(s) < 2 THEN s ELSE <<s[2], s[1]>> \o SubSeq(s, 3, Len(s))
Rotate(s) == IF s = <<>> THEN s ELSE Tail(s) \o <<Head(s)>>

\* the pooled values of perform_meta_analysis_biomarker that do not name the studies
RealPooledValues(l) ==
    [ pooled_sensitivity |-> l.pooled_sensitivity, pooled_specificity |-> l.pooled_specificity,
      sens_se |-> l.sens_se, spec_se |-> l.spec_se,
      sens_ci |-> l.sens_ci, spec_ci |-> l.spec_ci,
      sens_q |-> l.sens_q, spec_q |-> l.spec_q,
      sens_i2 |-> l.sens_i2, spec_i2 |-> l.spec_i2 ]

\* the locals of perform_meta_analysis_biomarker for the studies in the given order
LocalsOf(biomarker_studies) ==
    PoolStudyMetrics(biomarker_studies,
        [i \in DOMAIN biomarker_studies |-> calculate_study_metrics(biomarker_studies[i])])

FinitePositiveDor(s) == s.fp > 0 /\ s.fn > 0 /\ s.tp * s.tn > 0

\* C29: the pooled DOR is taken over exactly the studies whose 2x2 odds ratio
\* is finite and strictly positive (fp > 0, fn > 0 and tp * tn > 0); it is
\* their geometric mean, every factor of which is a positive number, and it
\* is None exactly when no such study remains.
C29_PooledDorOverFinitePositive ==
    script = "real" =>
       \A b \in DOMAIN meta_results :
          LET remaining == SelectSeq(locals[b].biomarker_studies, FinitePositiveDor)
              pooled_dor == meta_results[b].pooled_dor
              factors == [i \in DOMAIN remaining |->
                             Rat(remaining[i].tp * remaining[i].tn,
                                 remaining[i].fp * remaining[i].fn)]
          IN  /\ pooled_dor = None <=> remaining = <<>>
              /\ remaining # <<>> =>
                    /\ pooled_dor.kind = "number"
                    /\ pooled_dor.count = Len(remaining)
                    /\ pooled_dor.product = RProd(factors)
                    /\ \A i \in DOMAIN factors : RLt(Zero, factors[i])

\* a study was left out of a pooled DOR that is not 1
C29_Witness ==
    /\ script = "real"
    /\ \E b \in DOMAIN meta_results :
          /\ meta_results[b].pooled_dor.kind = "number"
          /\ meta_results[b].pooled_dor.count < Len(locals[b].biomarker_studies)
          /\ meta_results[b].pooled_dor.product # One

====
